---- MODULE Spec2Model ----
(***************************************************************************)
(* A model of compgrid (src/src/compgrid/config.py, compgrid.py):          *)
(*   - the window expression parser  read_column_value_config              *)
(*   - the config validator          read_config_from_string               *)
(*   - the window evaluator          <Window>.eval, calculate_total_over   *)
(*   - the column composer           NumberColumn / PctChangeColumn .eval  *)
(*   - the report run                slack / slackimg / email,             *)
(*                                   build_message, evaluate_row           *)
(*                                                                         *)
(* Texts are sequences of one-character strings, so that the regular       *)
(* expressions of the parser are modelled by what they match.  Dates are   *)
(* records [year, month, day] of the proleptic Gregorian calendar, as      *)
(* datetime.date; toordinal/fromordinal give the day arithmetic.  Floats   *)
(* are abstracted to exact rationals [n, d].                               *)
(***************************************************************************)
EXTENDS Integers, Sequences, FiniteSets, TLC

VARIABLES
    \* ---- parser run (read_column_value_config) ----
    text,        \* the text handed to read_column_value_config
    line,        \* the line number handed to it
    wspec,       \* its outcome: a window spec, or the exception raised
    goalval,     \* what <goal>.eval returned for the parsed goal spec
    \* ---- validation run (read_config_from_string) ----
    doc,         \* the YAML document (layout of its mapping nodes)
    config,      \* the mapping under validation (yaml.load's result, then updated)
    vpc,         \* position: "start","columns","rows_check","rows","done","raised"
    vidx,        \* index of the next column / row to examine
    parsed,      \* the local list "parsed" of read_column_config / read_row_config
    examined,    \* the elements examined so far, in order
    raised,      \* the exception that left read_config_from_string, or NoExc
    \* ---- evaluation run (<Column>.eval) ----
    column,      \* the column being evaluated
    today,       \* the anchor date
    df,          \* the table: a set of rows [date, total, over]
    row,         \* the row handed to eval (its fields), or RowNone
    epc,         \* position inside eval
    part,        \* which window spec of the column is being evaluated
    new_year,    \* loop variable of the month shift
    new_month,   \* loop variable of the month shift
    extra_days,  \* loop variable of the day clamping loop
    target,      \* the date the clamping loop selected
    value,       \* result of the column's value spec
    base,        \* result of the column's base spec
    result,      \* result of the column's eval, or the exception raised
    \* ---- report run (slack / slackimg / email of compgrid.py) ----
    entry,          \* the entry point called: "slack", "slackimg" or "email"
    rpc,            \* position inside the entry point
    now,            \* the wall clock's day (datetime.now()), as an ordinal
    yesterday_date, \* local of build_message
    yesterday,      \* local of evaluate_row
    ridx,           \* index of the row build_message is at
    cidx,           \* index of the column evaluate_row is at
    results,        \* local "results" of build_message: references to row objects
    row_results,    \* local "results" of evaluate_row: the ColumnValue objects
    rdf,            \* local "df" of evaluate_row
    loaded,         \* the config as read_config returned it
    evals,          \* the calls column.eval(df, today, row) made so far
    queries,        \* the queries executed so far
    logged,         \* the errors logged so far
    rendered,       \* the templates rendered so far
    sent,           \* the messages sent so far
    uncaught        \* the exception that left the entry point, or NoExc

pvars == <<text, line, wspec, goalval>>
vvars == <<doc, config, vpc, vidx, parsed, examined, raised>>
evars == <<column, today, df, row, epc, part, new_year, new_month, extra_days,
           target, value, base, result>>
rvars == <<entry, rpc, now, yesterday_date, yesterday, ridx, cidx, results,
           row_results, rdf, loaded, evals, queries, logged, rendered, sent, uncaught>>
vars == <<pvars, vvars, evars, rvars>>

-----------------------------------------------------------------------------
(* Calendar: datetime.date                                                 *)

MINYEAR == 1
MAXYEAR == 9999

IsLeap(y) == (y % 4 = 0) /\ ((y % 100 # 0) \/ (y % 400 = 0))

DaysInMonth(y, m) ==
    IF m = 2 THEN (IF IsLeap(y) THEN 29 ELSE 28)
    ELSE IF m \in {4, 6, 9, 11} THEN 30 ELSE 31

\* Whether date(y, m, d) can be constructed (else ValueError).
ValidDate(y, m, d) ==
    /\ y >= MINYEAR /\ y <= MAXYEAR
    /\ m >= 1 /\ m <= 12
    /\ d >= 1 /\ d <= DaysInMonth(y, m)

Date(y, m, d) == [year |-> y, month |-> m, day |-> d]

DaysInYear(y) == IF IsLeap(y) THEN 366 ELSE 365

RECURSIVE DaysBeforeYear(_)
DaysBeforeYear(y) == IF y <= 1 THEN 0 ELSE DaysBeforeYear(y - 1) + DaysInYear(y - 1)

RECURSIVE DaysBeforeMonth(_, _)
DaysBeforeMonth(y, m) ==
    IF m <= 1 THEN 0 ELSE DaysBeforeMonth(y, m - 1) + DaysInMonth(y, m - 1)

\* date.toordinal(): 0001-01-01 is day 1.
toordinal(d) == DaysBeforeYear(d.year) + DaysBeforeMonth(d.year, d.month) + d.day

RECURSIVE YearOfOrdinal(_, _)
YearOfOrdinal(n, y) ==
    IF n <= DaysInYear(y) THEN y ELSE YearOfOrdinal(n - DaysInYear(y), y + 1)

RECURSIVE MonthOfYearDay(_, _, _)
MonthOfYearDay(y, n, m) ==
    IF n <= DaysInMonth(y, m) THEN m ELSE MonthOfYearDay(y, n - DaysInMonth(y, m), m + 1)

\* date.fromordinal(n), for n >= 1.
fromordinal(n) ==
    LET y == YearOfOrdinal(n, 1)
        yd == n - DaysBeforeYear(y)
        m == MonthOfYearDay(y, yd, 1)
    IN Date(y, m, yd - DaysBeforeMonth(y, m))

\* date.weekday(): Monday is 0, Sunday is 6; 0001-01-01 is a Monday.
weekday(d) == (toordinal(d) + 6) % 7

\* date +/- timedelta(days) as an ordinal; OverflowError outside date.min..date.max.
MaxOrdinal == 3652059
InRange(n) == n >= 1 /\ n <= MaxOrdinal

-----------------------------------------------------------------------------
(* Texts                                                                   *)

Digits == {"0", "1", "2", "3", "4", "5", "6", "7", "8", "9"}

DigitVal(c) ==
    CASE c = "0" -> 0 [] c = "1" -> 1 [] c = "2" -> 2 [] c = "3" -> 3
      [] c = "4" -> 4 [] c = "5" -> 5 [] c = "6" -> 6 [] c = "7" -> 7
      [] c = "8" -> 8 [] c = "9" -> 9

\* int(s) for a non-empty sequence of digits.
RECURSIVE IntOf(_)
IntOf(s) ==
    IF Len(s) = 0 THEN 0
    ELSE IntOf(SubSeq(s, 1, Len(s) - 1)) * 10 + DigitVal(s[Len(s)])

StartsWith(t, p) == Len(t) >= Len(p) /\ SubSeq(t, 1, Len(p)) = p

\* Length of the longest run of characters of t from position i on that
\* satisfy the class (digits, or anything but a closing parenthesis).
RECURSIVE DigitRun(_, _)
DigitRun(t, i) ==
    IF i <= Len(t) /\ t[i] \in Digits THEN 1 + DigitRun(t, i + 1) ELSE 0

RECURSIVE NonParenRun(_, _)
NonParenRun(t, i) ==
    IF i <= Len(t) /\ t[i] # ")" THEN 1 + NonParenRun(t, i + 1) ELSE 0

NoMatch == <<>>

\* re.match(r"<name>\((\d+)\)", t): group 1, or NoMatch.  re.match anchors
\* at the start of t only; whatever follows the closing parenthesis is ignored.
MatchDigits(name, t) ==
    LET p == name \o <<"(">>
        k == DigitRun(t, Len(p) + 1)
    IN IF StartsWith(t, p) /\ k >= 1 /\ Len(t) >= Len(p) + k + 1
          /\ t[Len(p) + k + 1] = ")"
       THEN SubSeq(t, Len(p) + 1, Len(p) + k)
       ELSE NoMatch

\* re.match(r"goal\(([^)]+)\)", t): group 1, or NoMatch.
MatchField(name, t) ==
    LET p == name \o <<"(">>
        k == NonParenRun(t, Len(p) + 1)
    IN IF StartsWith(t, p) /\ k >= 1 /\ Len(t) >= Len(p) + k + 1
          /\ t[Len(p) + k + 1] = ")"
       THEN SubSeq(t, Len(p) + 1, Len(p) + k)
       ELSE NoMatch

\* re.match(r"since\((\d\d\d\d-\d\d-\d\d)\)", t): group 1, or NoMatch.
MatchDate(name, t) ==
    LET p == name \o <<"(">>
        o == Len(p)
    IN IF /\ StartsWith(t, p) /\ Len(t) >= o + 11
          /\ \A i \in {1, 2, 3, 4, 6, 7, 9, 10} : t[o + i] \in Digits
          /\ t[o + 5] = "-" /\ t[o + 8] = "-" /\ t[o + 11] = ")"
       THEN SubSeq(t, o + 1, o + 10)
       ELSE NoMatch

T_yesterday == <<"y", "e", "s", "t", "e", "r", "d", "a", "y">>
T_weekdayweekend ==
    <<"w", "e", "e", "k", "d", "a", "y", "w", "e", "e", "k", "e", "n", "d">>
T_daysago == <<"d", "a", "y", "s", "a", "g", "o">>
T_lastweek == <<"l", "a", "s", "t", "w", "e", "e", "k">>
T_week == <<"w", "e", "e", "k">>
T_trailingavg == <<"t", "r", "a", "i", "l", "i", "n", "g", "a", "v", "g">>
T_month == <<"m", "o", "n", "t", "h">>
T_monthago == <<"m", "o", "n", "t", "h", "a", "g", "o">>
T_wtd == <<"w", "t", "d">>
T_mtdavg == <<"m", "t", "d", "a", "v", "g">>
T_mtd == <<"m", "t", "d">>
T_since == <<"s", "i", "n", "c", "e">>
T_goal == <<"g", "o", "a", "l">>
T_after == <<"a", "f", "t", "e", "r">>

-----------------------------------------------------------------------------
(* Window specs and exceptions                                             *)

\* A window spec: the class, and its constructor argument.
Window(kind, arg) == [kind |-> kind, arg |-> arg]

\* Python values that a goal can hold or an eval can return.
PyStr(s) == [type |-> "str", chars |-> s]
PyNum(n, d) == [type |-> "num", n |-> n, d |-> d]
PyInt(n) == PyNum(n, 1)
PyNone == [type |-> "None"]
PyNaN == [type |-> "nan"]

Returned(v) == [status |-> "returned", value |-> v]
ConfigError(message, detail, ln) ==
    [status |-> "ConfigError", message |-> message, detail |-> detail, line |-> ln,
     filename |-> "None"]
ValueError == [status |-> "ValueError"]
TypeError == [status |-> "TypeError"]
KeyError == [status |-> "KeyError"]
OverflowError == [status |-> "OverflowError"]
NoExc == [status |-> "none"]

\* datetime.strptime(s, "%Y-%m-%d").date() for s matching \d\d\d\d-\d\d-\d\d:
\* the date, or ValueError when the digits denote no calendar date.
strptime(s) ==
    LET y == IntOf(SubSeq(s, 1, 4))
        m == IntOf(SubSeq(s, 6, 7))
        d == IntOf(SubSeq(s, 9, 10))
    IN IF ValidDate(y, m, d) THEN Returned(Date(y, m, d)) ELSE ValueError

\* NumberGoal(m.group(1)): the goal keeps the matched group as it is, a str.
NumberGoal(group) == Window("NumberGoal", PyStr(group))

\* The "since(...)" branch: strptime's ValueError leaves the function as raised.
SinceBranch(t, ln, group) ==
    LET since == strptime(group)
    IN IF since.status = "returned"
       THEN Returned(Window("SinceDate", since.value))
       ELSE ValueError

\* raise ConfigError("unknown column value '%s'" % text, line=line)
UnknownColumnValue(t, ln) == ConfigError("unknown column value", t, ln)

read_column_value_config(t, ln) ==
    IF t = T_yesterday THEN Returned(Window("DaysAgo", 0))
    ELSE IF t = T_weekdayweekend THEN Returned(Window("WeekdayWeekend", 0))
    ELSE IF MatchDigits(T_daysago, t) # NoMatch
        THEN Returned(Window("DaysAgo", IntOf(MatchDigits(T_daysago, t))))
    ELSE IF t = T_lastweek THEN Returned(Window("WeeksAgo", 1))
    ELSE IF MatchDigits(T_week, t) # NoMatch
        THEN Returned(Window("WeeksAgo", IntOf(MatchDigits(T_week, t))))
    ELSE IF MatchDigits(T_trailingavg, t) # NoMatch
        THEN Returned(Window("TrailingAverage", IntOf(MatchDigits(T_trailingavg, t))))
    ELSE IF t = T_month THEN Returned(Window("Month", 1))
    ELSE IF MatchDigits(T_month, t) # NoMatch
        THEN Returned(Window("Month", IntOf(MatchDigits(T_month, t))))
    ELSE IF t = T_monthago THEN Returned(Window("MonthAgo", 1))
    ELSE IF MatchDigits(T_monthago, t) # NoMatch
        THEN Returned(Window("MonthAgo", IntOf(MatchDigits(T_monthago, t))))
    ELSE IF t = T_wtd THEN Returned(Window("WeekToDate", 0))
    ELSE IF MatchDigits(T_wtd, t) # NoMatch
        THEN Returned(Window("WeekToDate", IntOf(MatchDigits(T_wtd, t))))
    ELSE IF t = T_mtdavg THEN Returned(Window("MonthToDateAverage", 0))
    ELSE IF MatchDigits(T_mtdavg, t) # NoMatch
        THEN Returned(Window("MonthToDateAverage", IntOf(MatchDigits(T_mtdavg, t))))
    ELSE IF t = T_mtd THEN Returned(Window("MonthToDate", 0))
    ELSE IF MatchDigits(T_mtd, t) # NoMatch
        THEN Returned(Window("MonthToDate", IntOf(MatchDigits(T_mtd, t))))
    ELSE IF MatchDate(T_since, t) # NoMatch
        THEN SinceBranch(t, ln, MatchDate(T_since, t))
    ELSE IF MatchDigits(T_goal, t) # NoMatch
        THEN Returned(NumberGoal(MatchDigits(T_goal, t)))
    ELSE IF MatchField(T_goal, t) # NoMatch
        THEN Returned(Window("FieldGoal", MatchField(T_goal, t)))
    ELSE UnknownColumnValue(t, ln)

-----------------------------------------------------------------------------
(* Numbers: floats abstracted to exact rationals n/d, d > 0, in lowest terms *)

Abs(x) == IF x < 0 THEN -x ELSE x

RECURSIVE GCD(_, _)
GCD(a, b) == IF b = 0 THEN a ELSE GCD(b, a % b)

Rat(n, d) ==
    LET s == IF d < 0 THEN -1 ELSE 1
        g == GCD(Abs(n), Abs(d))
    IN PyNum((s * n) \div g, (s * d) \div g)

RatAdd(a, b) == Rat(a.n * b.d + b.n * a.d, a.d * b.d)
RatSub(a, b) == Rat(a.n * b.d - b.n * a.d, a.d * b.d)
RatMul(a, b) == Rat(a.n * b.n, a.d * b.d)
\* a / b for b # 0
RatDiv(a, b) == Rat(a.n * b.d, a.d * b.n)
IsZero(v) == v.type = "num" /\ v.n = 0

-----------------------------------------------------------------------------
(* Tables: the DataFrame of a row's query.  rows is a set of records       *)
(* [date, total, over] with date an ordinal; over is read only when the    *)
(* table has an "over" column.                                             *)

Table(hasOver, rows) == [hasOver |-> hasOver, rows |-> rows]

RECURSIVE SumOf(_, _)
SumOf(rows, f) ==
    IF rows = {} THEN 0
    ELSE LET r == CHOOSE r \in rows : TRUE
         IN (IF f = "total" THEN r.total ELSE r.over) + SumOf(rows \ {r}, f)

\* A Series: the table's columns reduced to one value each (the date column
\* is dropped by the reduction as a nuisance column).
Series(total, hasOver, over) == [total |-> total, hasOver |-> hasOver, over |-> over]

\* DataFrame.sum(): the sum of no rows is 0.
df_sum(t, rows) ==
    Series(PyInt(SumOf(rows, "total")), t.hasOver, PyInt(SumOf(rows, "over")))

\* DataFrame.mean(): the mean of no rows is NaN.
df_mean(t, rows) ==
    IF rows = {} THEN Series(PyNaN, t.hasOver, PyNaN)
    ELSE Series(Rat(SumOf(rows, "total"), Cardinality(rows)), t.hasOver,
                Rat(SumOf(rows, "over"), Cardinality(rows)))

\* total / over on floats: NaN is contagious.
FloatDiv(a, b) == IF a.type = "nan" \/ b.type = "nan" THEN PyNaN ELSE RatDiv(a, b)

calculate_total_over_NoZeroCheck(s) ==
    IF ~s.hasOver THEN s.total
    ELSE IF IsZero(s.over) THEN PyInt(0)
    ELSE FloatDiv(s.total, s.over)
calculate_total_over(s) ==
    IF ~s.hasOver THEN s.total
    ELSE IF IsZero(s.over) THEN PyNone
    ELSE FloatDiv(s.total, s.over)

\* df[(df.date >= lo) & (df.date <= hi)]
Between(t, lo, hi) == {r \in t.rows : r.date >= lo /\ r.date <= hi}

-----------------------------------------------------------------------------
(* Window evaluation                                                       *)

\* The month shift shared by Month, MonthAgo and MonthToDate:
\*   new_month = today.month - months_ago; new_year = today.year
\*   while new_month < 1: new_month += 12; new_year -= 1
RECURSIVE ShiftLoop(_, _)
ShiftLoop(m, y) == IF m < 1 THEN ShiftLoop(m + 12, y - 1) ELSE <<m, y>>

MonthShift(d, months_ago) == ShiftLoop(d.month - months_ago, d.year)

\* today.replace(year=y, month=m, day=dd)
replace(y, m, dd) == IF ValidDate(y, m, dd) THEN Returned(Date(y, m, dd)) ELSE ValueError

\* A selection df[(df.date >= lo) & (df.date <= hi)], as its bounds.
Range(lo, hi) == [status |-> "returned", lo |-> lo, hi |-> hi]

TrailingAverage_range(days, tod) ==
    LET lo == toordinal(tod) - days
    IN IF ~InRange(lo) THEN OverflowError ELSE Range(lo, toordinal(tod) - 1)

\* (every day from the selected one up to the anchor)
DaysAgo_range_UpTo(days, tod) ==
    LET d == toordinal(tod) - days
    IN IF ~InRange(d) THEN OverflowError ELSE Range(d, toordinal(tod))
DaysAgo_range(days, tod) ==
    LET d == toordinal(tod) - days
    IN IF ~InRange(d) THEN OverflowError ELSE Range(d, d)

WeekdayWeekend_range(days, tod) ==
    LET end_date == toordinal(tod) - days
        wd == (end_date + 6) % 7
        start_date == IF wd >= 5 THEN end_date - (wd - 4) ELSE end_date
    IN IF ~InRange(end_date) THEN OverflowError ELSE Range(start_date, end_date)

Month_range(months_ago, tod) ==
    LET s == MonthShift(tod, months_ago)
        month_start == replace(s[2], s[1], 1)
    IN IF month_start.status # "returned" THEN month_start
       ELSE LET lo == toordinal(month_start.value)
                plus31 == lo + 31
            IN IF ~InRange(plus31) THEN OverflowError
               ELSE LET nx == fromordinal(plus31)
                        month_end == toordinal(Date(nx.year, nx.month, 1)) - 1
                    IN Range(lo, month_end)

WeeksAgo_range(weeks_ago, tod) ==
    LET tomorrow == toordinal(tod) + 1
        week0 == tomorrow - ((tomorrow + 6) % 7)
        week_start == week0 - 7 * weeks_ago
    IN IF ~InRange(tomorrow) \/ ~InRange(week_start) THEN OverflowError
       ELSE Range(week_start, week_start + 6)

WeekToDate_range(weeks_ago, tod) ==
    LET week0 == toordinal(tod) - weekday(tod)
        week_start == week0 - 7 * weeks_ago
        shifted == toordinal(tod) - 7 * weeks_ago
    IN IF ~InRange(week_start) \/ ~InRange(shifted) THEN OverflowError
       ELSE Range(week_start, shifted)

\* The loop of MonthToDateAverage.eval, i iterations left:
\*   month_start = (month_start - timedelta(days=1)).replace(day=1)
\*   today = today.replace(month=month_start.month, year=month_start.year)
RECURSIVE MtdAvgLoop(_, _, _)
MtdAvgLoop(i, month_start, tod) ==
    IF i = 0 THEN Range(toordinal(month_start), toordinal(tod))
    ELSE LET prev == toordinal(month_start) - 1
         IN IF ~InRange(prev) THEN OverflowError
            ELSE LET p == fromordinal(prev)
                     ms == Date(p.year, p.month, 1)
                     td == replace(ms.year, ms.month, tod.day)
                 IN IF td.status # "returned" THEN td
                    ELSE MtdAvgLoop(i - 1, ms, td.value)

MonthToDateAverage_range(months_ago, tod) ==
    MtdAvgLoop(months_ago, Date(tod.year, tod.month, 1), tod)

SinceDate_range(since, tod) == Range(toordinal(since), toordinal(tod))

\* After the clamping loop of MonthAgo.eval: df[df.date == target]
MonthAgo_range(tgt) == Range(toordinal(tgt), toordinal(tgt))

\* After the clamping loop of MonthToDate.eval: month_start = target.replace(day=1)
MonthToDate_range(tgt) == Range(toordinal(Date(tgt.year, tgt.month, 1)), toordinal(tgt))

\* The reduction each eval applies to its selection.
UsesMean(w) == w.kind \in {"TrailingAverage", "MonthToDateAverage"}

\* <selection>.sum() or .mean(), then calculate_total_over; an exception
\* raised while the bounds are computed leaves eval.
Aggregate(w, t, r) ==
    IF r.status # "returned" THEN r
    ELSE IF UsesMean(w)
      THEN Returned(calculate_total_over(df_mean(t, Between(t, r.lo, r.hi))))
    ELSE Returned(calculate_total_over(df_sum(t, Between(t, r.lo, r.hi))))

NumberGoal_eval(number) == Returned(number)

\* FieldGoal.eval: row is RowNone or [fields |-> <function from field names>];
\* q is the table the query named by a non-numeric field returns.
RowNone == [isNone |-> TRUE]
RowOf(fields) == [isNone |-> FALSE, fields |-> fields]

FieldGoal_eval(field_name, r, q) ==
    IF r.isNone THEN Returned(PyNone)
    ELSE IF field_name \notin DOMAIN r.fields THEN Returned(PyNone)
    ELSE IF r.fields[field_name].type = "None" THEN Returned(PyNone)
    ELSE IF r.fields[field_name].type = "num" THEN Returned(r.fields[field_name])
    ELSE Returned(calculate_total_over(df_sum(q, q.rows)))

\* The evals that are a single expression over the table (no clamping loop).
IsClamped(w) == w.kind \in {"MonthAgo", "MonthToDate"}

IsGoal(w) == w.kind \in {"NumberGoal", "FieldGoal"}

\* The bounds of the selection of a spec without clamping loop.
Window_range(w, tod) ==
    CASE w.kind = "TrailingAverage" -> TrailingAverage_range(w.arg, tod)
      [] w.kind = "DaysAgo" -> DaysAgo_range(w.arg, tod)
      [] w.kind = "WeekdayWeekend" -> WeekdayWeekend_range(w.arg, tod)
      [] w.kind = "Month" -> Month_range(w.arg, tod)
      [] w.kind = "WeeksAgo" -> WeeksAgo_range(w.arg, tod)
      [] w.kind = "WeekToDate" -> WeekToDate_range(w.arg, tod)
      [] w.kind = "MonthToDateAverage" -> MonthToDateAverage_range(w.arg, tod)
      [] w.kind = "SinceDate" -> SinceDate_range(w.arg, tod)

\* The bounds of the selection of MonthAgo / MonthToDate, given the target.
Clamped_range(w, tgt) ==
    IF w.kind = "MonthAgo" THEN MonthAgo_range(tgt) ELSE MonthToDate_range(tgt)

\* <spec>.eval(df, today, row) for a spec without clamping loop.
Window_eval(w, t, tod, r, q) ==
    IF w.kind = "NumberGoal" THEN NumberGoal_eval(w.arg)
    ELSE IF w.kind = "FieldGoal" THEN FieldGoal_eval(w.arg, r, q)
    ELSE Aggregate(w, t, Window_range(w, tod))

Window_select(w, t, tgt) == Aggregate(w, t, Clamped_range(w, tgt))

\* PctChangeColumn.eval, once value and base are evaluated.  A str operand
\* compares unequal to 0 and makes the float arithmetic raise TypeError.
PctChange_combine(v, b) ==
    IF v.type = "None" \/ b.type = "None" THEN Returned(PyNone)
    ELSE IF IsZero(b) /\ IsZero(v) THEN Returned(PyInt(0))
    ELSE IF IsZero(b) THEN Returned(PyNone)
    ELSE IF v.type = "str" \/ b.type = "str" THEN TypeError
    ELSE IF v.type = "nan" \/ b.type = "nan" THEN Returned(PyNaN)
    ELSE Returned(RatSub(RatMul(PyInt(100), RatDiv(v, b)), PyInt(100)))

-----------------------------------------------------------------------------
(* Config documents and yaml.load(s, Loader=SafeLineLoader)                *)
(*                                                                         *)
(* A document is a block-style YAML mapping, one attribute per line:       *)
(*   lead comment lines, then "name:", then "columns:" and its elements,   *)
(*   then "rows:" and its elements.  A node is absent, a scalar, or a list *)
(*   of mapping elements; an element is the sequence of its <<key, value>> *)
(*   attributes, in the order of its lines.                                *)

Absent == [node |-> "absent"]
Scalar == [node |-> "scalar"]
List(elems) == [node |-> "list", elems |-> elems]

RECURSIVE LinesOf(_, _)
\* number of lines taken by the first k elements
LinesOf(elems, k) == IF k = 0 THEN 0 ELSE LinesOf(elems, k - 1) + Len(elems[k])

NodeLines(n) ==
    IF n.node = "absent" THEN 0
    ELSE IF n.node = "scalar" THEN 1
    ELSE 1 + LinesOf(n.elems, Len(n.elems))

\* 1-based line of the top-level mapping node, of the keys, and of elements.
TopLine(d) == d.lead + 1
ColumnsKeyLine(d) == TopLine(d) + (IF d.hasName THEN 1 ELSE 0)
RowsKeyLine(d) == ColumnsKeyLine(d) + NodeLines(d.columns)
ColumnLine(d, i) == ColumnsKeyLine(d) + 1 + LinesOf(d.columns.elems, i - 1)
RowLine(d, i) == RowsKeyLine(d) + 1 + LinesOf(d.rows.elems, i - 1)
\* line of the k-th attribute of an element that starts at line ln
AttrLine(ln, k) == ln + k - 1

Keys(attrs) == {attrs[i][1] : i \in 1..Len(attrs)}
ValueOf(attrs, k) == attrs[CHOOSE i \in 1..Len(attrs) : attrs[i][1] = k][2]

\* SafeLineLoader.construct_mapping: the mapping, plus "__line__" set to
\* node.start_mark.line + 1, the line the mapping node starts on.
construct_mapping(attrs, start_line) ==
    [k \in Keys(attrs) \cup {"__line__"} |->
        IF k = "__line__" THEN start_line ELSE ValueOf(attrs, k)]

PyList(items) == [isList |-> TRUE, items |-> items]
PyScalar == [isList |-> FALSE]

LoadNode(n, first_line) ==
    IF n.node = "scalar" THEN PyScalar
    ELSE PyList([i \in 1..Len(n.elems) |->
                    construct_mapping(n.elems[i],
                                      first_line + LinesOf(n.elems, i - 1))])

\* The top-level scalars other than name (title, slack, email, header), which
\* a document may carry after its rows; their values are texts.
ScalarsOf(d) == IF "scalars" \in DOMAIN d THEN d.scalars ELSE <<>>
T_name == <<"t", "h", "e", "a", "l", "t", "h">>

yaml_load(d) ==
    [k \in {"__line__"} \cup (IF d.hasName THEN {"name"} ELSE {})
            \cup (IF d.columns.node # "absent" THEN {"columns"} ELSE {})
            \cup (IF d.rows.node # "absent" THEN {"rows"} ELSE {})
            \cup DOMAIN ScalarsOf(d) |->
        CASE k = "__line__" -> TopLine(d)
          [] k = "name" -> T_name
          [] k = "columns" -> LoadNode(d.columns, ColumnsKeyLine(d) + 1)
          [] k = "rows" -> LoadNode(d.rows, RowsKeyLine(d) + 1)
          [] OTHER -> ScalarsOf(d)[k]]

-----------------------------------------------------------------------------
(* Validation: read_column_config, read_row_config                         *)

\* The line a column or row error carries: column["__line__"].
\* (line 1 in place of the element's line)
ErrorLineFirst(m) == 1
ErrorLine(m) == m["__line__"]

SparklineColumn_from_config(c) ==
    Returned([cls |-> "SparklineColumn",
              name |-> IF "name" \in DOMAIN c THEN c["name"] ELSE "None",
              template |-> "column_sparkline.md"])

NumberColumn_from_config(c) ==
    LET ln == ErrorLine(c)
    IN IF "name" \notin DOMAIN c
         THEN ConfigError("missing name attribute for column", <<>>, ln)
       ELSE IF "value" \notin DOMAIN c
         THEN ConfigError("missing value attribute for column", <<>>, ln)
       ELSE LET v == read_column_value_config(c["value"], ln)
            IN IF v.status # "returned" THEN v
               ELSE Returned([cls |-> "NumberColumn", name |-> c["name"],
                              value |-> v.value, template |-> "column_number.md"])

PctChangeColumn_from_config(c) ==
    LET ln == ErrorLine(c)
    IN IF "name" \notin DOMAIN c
         THEN ConfigError("missing name attribute for column", <<>>, ln)
       ELSE IF "value" \notin DOMAIN c
         THEN ConfigError("missing value attribute for column", <<>>, ln)
       ELSE IF "base" \notin DOMAIN c
         THEN ConfigError("missing base attribute for column", <<>>, ln)
       ELSE LET v == read_column_value_config(c["value"], ln)
                b == read_column_value_config(c["base"], ln)
            IN IF v.status # "returned" THEN v
               ELSE IF b.status # "returned" THEN b
               ELSE Returned([cls |-> "PctChangeColumn", name |-> c["name"],
                              value |-> v.value, base |-> b.value,
                              template |-> "column_pctchange.md"])

\* One iteration of the loop of read_column_config, on column c.
read_column(c) ==
    IF "type" \notin DOMAIN c
      THEN ConfigError("missing type attribute for column", <<>>, ErrorLine(c))
    ELSE IF c["type"] = "number" THEN NumberColumn_from_config(c)
    ELSE IF c["type"] = "pctchange" THEN PctChangeColumn_from_config(c)
    ELSE IF c["type"] = "sparkline" THEN SparklineColumn_from_config(c)
    ELSE ConfigError("unknown column type", c["type"], ErrorLine(c))

STYLES == {"positive-green", "negative-green", "neutral"}
ROW_TYPES == {"number", "float", "percent", "currency"}

\* One iteration of the loop of read_row_config, on row r.
read_row(r) ==
    LET type_ == IF "type" \in DOMAIN r THEN r["type"] ELSE "float"
        style_name == IF "style" \in DOMAIN r THEN r["style"] ELSE "positive-green"
    IN IF "name" \notin DOMAIN r
         THEN ConfigError("missing name attribute for row", <<>>, ErrorLine(r))
       ELSE IF "query" \notin DOMAIN r
         THEN ConfigError("missing query attribute for row", <<>>, ErrorLine(r))
       ELSE IF type_ \notin ROW_TYPES
         THEN ConfigError("unknown row type", type_, ErrorLine(r))
       ELSE IF style_name \notin STYLES
         THEN ConfigError("unknown row style", style_name, ErrorLine(r))
       ELSE Returned([name |-> r["name"], query |-> r["query"], style |-> style_name,
                      type |-> type_, columns |-> <<>>, fields |-> r])

-----------------------------------------------------------------------------
(* Idle values: each run leaves the variables of the other runs alone.     *)

NoDate == Date(0, 0, 0)
NoColumn == [cls |-> "none"]
NoDoc == [lead |-> 0, hasName |-> FALSE, columns |-> Absent, rows |-> Absent]

ParserIdle == text = <<>> /\ line = 0 /\ wspec = NoExc /\ goalval = NoExc
ValidatorIdle ==
    /\ doc = NoDoc /\ config = <<>> /\ vpc = "idle" /\ vidx = 0
    /\ parsed = <<>> /\ examined = <<>> /\ raised = NoExc
EvalIdle ==
    /\ column = NoColumn /\ today = NoDate /\ df = Table(FALSE, {}) /\ row = RowNone
    /\ epc = "idle" /\ part = "value" /\ new_year = 0 /\ new_month = 0
    /\ extra_days = 0 /\ target = NoDate /\ value = PyNone /\ base = PyNone
    /\ result = NoExc
ReportIdle ==
    /\ entry = "none" /\ rpc = "idle" /\ now = 0
    /\ yesterday_date = NoDate /\ yesterday = NoDate /\ ridx = 0 /\ cidx = 0
    /\ results = <<>> /\ row_results = <<>> /\ rdf = Table(FALSE, {})
    /\ loaded = <<>> /\ evals = <<>> /\ queries = <<>> /\ logged = <<>>
    /\ rendered = 0 /\ sent = 0 /\ uncaught = NoExc

-----------------------------------------------------------------------------
(* Parser run: read_column_value_config(text, line), then <goal>.eval      *)

MaxLine == 3
ParseLines == 0..MaxLine

CallNames ==
    {T_daysago, T_week, T_trailingavg, T_month, T_monthago, T_wtd, T_mtdavg,
     T_mtd, T_since, T_goal, T_after, T_yesterday}
LiteralTexts ==
    {T_yesterday, T_weekdayweekend, T_lastweek, T_month, T_monthago, T_wtd,
     T_mtdavg, T_mtd, T_goal, T_after, <<>>}
ArgTexts ==
    {<<>>, <<"7">>, <<"4", "2">>, <<"0", "1", "0">>, <<"f", "x">>, <<"4", "2", "a">>,
     <<"x", "(", "1">>,
     <<"2", "0", "0", "0", "-", "0", "1", "-", "0", "1">>,
     <<"2", "0", "0", "0", "-", "1", "3", "-", "0", "1">>,
     <<"2", "0", "0", "1", "-", "0", "2", "-", "2", "9">>,
     <<"2", "0", "0", "4", "-", "0", "2", "-", "2", "9">>,
     <<"0", "0", "0", "0", "-", "0", "1", "-", "0", "1">>,
     <<"2", "0", "0", "0", "-", "0", "1", "-", "0", "0">>,
     <<"2", "0", "0", "0", "-", "1", "-", "0", "1">>}
Closings == {<<>>, <<")">>, <<")", "x">>, <<")", ")">>}
Texts ==
    LiteralTexts \cup
    {n \o <<"(">> \o a \o c : n \in CallNames, a \in ArgTexts, c \in Closings}

\* The fields of a row, as FieldGoal.eval reads them.
F_fx == <<"f", "x">>
GoalRows ==
    {RowNone,
     RowOf([k \in {F_fx} |-> PyInt(50)]),
     RowOf([k \in {F_fx} |-> PyStr(<<"q", ".", "s", "q", "l">>)]),
     RowOf([k \in {<<"4", "2">>} |-> PyInt(7)])}
GoalTables ==
    {Table(FALSE, {[date |-> 1, total |-> 9, over |-> 0]}),
     Table(TRUE, {[date |-> 1, total |-> 9, over |-> 3]}),
     Table(TRUE, {})}

InitParse ==
    /\ text \in Texts
    /\ line \in ParseLines
    /\ wspec = NoExc
    /\ goalval = NoExc
    /\ ValidatorIdle
    /\ EvalIdle
    /\ ReportIdle

ReadColumnValue ==
    /\ wspec.status = "none"
    /\ wspec' = read_column_value_config(text, line)
    /\ UNCHANGED <<text, line, goalval, vvars, evars, rvars>>

NumberGoalEval ==
    /\ wspec.status = "returned" /\ wspec.value.kind = "NumberGoal"
    /\ goalval.status = "none"
    /\ \E t \in GoalTables, r \in GoalRows :
          goalval' = Window_eval(wspec.value, t, Date(1, 1, 1), r, t)
    /\ UNCHANGED <<text, line, wspec, vvars, evars, rvars>>

FieldGoalEval ==
    /\ wspec.status = "returned" /\ wspec.value.kind = "FieldGoal"
    /\ goalval.status = "none"
    /\ \E t \in GoalTables, r \in GoalRows, q \in GoalTables :
          goalval' = Window_eval(wspec.value, t, Date(1, 1, 1), r, q)
    /\ UNCHANGED <<text, line, wspec, vvars, evars, rvars>>

NextParse == ReadColumnValue \/ NumberGoalEval \/ FieldGoalEval

SpecParse == InitParse /\ [][NextParse]_vars

-----------------------------------------------------------------------------
(* Evaluation run: <Column>.eval(df, today, row)                           *)
(*                                                                         *)
(* A number column evaluates its value spec; a pctchange column evaluates  *)
(* its value spec, then its base spec, then combines them.  An exception   *)
(* raised by a spec leaves eval at once.  The clamping loop of MonthAgo    *)
(* and MonthToDate runs one iteration per step.                            *)

NumberColumn(w) == [cls |-> "NumberColumn", value |-> w, base |-> w]
PctChangeColumn(v, b) == [cls |-> "PctChangeColumn", value |-> v, base |-> b]

CurrentSpec == IF part = "value" THEN column.value ELSE column.base

\* What eval does with the outcome o of the spec just evaluated.
PartDone(o) ==
    IF o.status # "returned"
      THEN /\ result' = o /\ epc' = "done"
           /\ UNCHANGED <<part, value, base>>
    ELSE IF column.cls = "NumberColumn"
      THEN /\ result' = o /\ epc' = "done" /\ value' = o.value
           /\ UNCHANGED <<part, base>>
    ELSE IF part = "value"
      THEN /\ value' = o.value /\ part' = "base" /\ epc' = "begin"
           /\ UNCHANGED <<base, result>>
    ELSE /\ base' = o.value /\ epc' = "combine"
         /\ UNCHANGED <<part, value, result>>

\* A spec whose eval is one selection over the table.
EvalDirect ==
    /\ epc = "begin" /\ ~IsClamped(CurrentSpec)
    /\ \E q \in GoalTables : PartDone(Window_eval(CurrentSpec, df, today, row, q))
    /\ UNCHANGED <<column, today, df, row, new_year, new_month, extra_days, target>>
    /\ UNCHANGED <<pvars, vvars, rvars>>

\* MonthAgo.eval / MonthToDate.eval up to the clamping loop.
BeginClamped ==
    /\ epc = "begin" /\ IsClamped(CurrentSpec)
    /\ new_month' = MonthShift(today, CurrentSpec.arg)[1]
    /\ new_year' = MonthShift(today, CurrentSpec.arg)[2]
    /\ extra_days' = 0
    /\ epc' = "clamp"
    /\ UNCHANGED <<column, today, df, row, part, target, value, base, result>>
    /\ UNCHANGED <<pvars, vvars, rvars>>

\* One iteration of "while True: try: target = today.replace(...); break
\* except ValueError: extra_days += 1", while the day tried is at least 1.
ClampStep ==
    /\ epc = "clamp" /\ today.day - extra_days >= 1
    /\ LET r == replace(new_year, new_month, today.day - extra_days)
       IN IF r.status = "returned"
          THEN target' = r.value /\ epc' = "select" /\ UNCHANGED extra_days
          ELSE extra_days' = extra_days + 1 /\ UNCHANGED <<target, epc>>
    /\ UNCHANGED <<column, today, df, row, part, new_year, new_month, value, base,
                   result>>
    /\ UNCHANGED <<pvars, vvars, rvars>>

\* Once the day tried is below 1, replace raises ValueError in this and in
\* every later iteration: the loop never ends.
ClampDiverge ==
    /\ epc = "clamp" /\ today.day - extra_days < 1
    /\ epc' = "hang"
    /\ UNCHANGED <<column, today, df, row, part, new_year, new_month, extra_days,
                   target, value, base, result>>
    /\ UNCHANGED <<pvars, vvars, rvars>>

\* MonthAgo.eval / MonthToDate.eval after the clamping loop.
Select ==
    /\ epc = "select"
    /\ PartDone(Window_select(CurrentSpec, df, target))
    /\ UNCHANGED <<column, today, df, row, new_year, new_month, extra_days, target>>
    /\ UNCHANGED <<pvars, vvars, rvars>>

\* PctChangeColumn.eval after both specs are evaluated.
Combine ==
    /\ epc = "combine"
    /\ result' = PctChange_combine(value, base)
    /\ epc' = "done"
    /\ UNCHANGED <<column, today, df, row, part, new_year, new_month, extra_days,
                   target, value, base>>
    /\ UNCHANGED <<pvars, vvars, rvars>>

EvalStart ==
    /\ epc = "begin" /\ part = "value" /\ new_year = 0 /\ new_month = 0
    /\ extra_days = 0 /\ target = NoDate /\ value = PyNone /\ base = PyNone
    /\ result = NoExc

----
(* Month shifting: every anchor date of the first years, MonthAgo and      *)
(* MonthToDate with months_ago up to MaxMonthsAgo.                         *)

LastYear == 4
MaxMonthsAgo == 14

AnchorDates ==
    {a \in {Date(y, m, d) : y \in MINYEAR..LastYear, m \in 1..12, d \in 1..31} :
        ValidDate(a.year, a.month, a.day)}

InitMonth ==
    /\ ParserIdle /\ ValidatorIdle /\ ReportIdle
    /\ today \in AnchorDates
    /\ \E k \in {"MonthAgo", "MonthToDate"}, n \in 0..MaxMonthsAgo :
          column = NumberColumn(Window(k, n))
    /\ df = Table(TRUE, {[date |-> toordinal(today), total |-> 4, over |-> 2]})
    /\ row = RowNone
    /\ EvalStart

NextMonth == BeginClamped \/ ClampStep \/ ClampDiverge \/ Select

SpecMonth == InitMonth /\ [][NextMonth]_vars

----
(* Evaluation of number and pctchange columns over small tables.           *)

\* The specs the parser produces for these texts.
D0 == <<"0">>
D1 == <<"1">>
D2 == <<"2">>
Call(name, arg) == name \o <<"(">> \o arg \o <<")">>
EvalTexts ==
    {T_yesterday, T_weekdayweekend, T_lastweek, T_month, T_monthago, T_wtd,
     T_mtdavg, T_mtd,
     Call(T_since, <<"0", "0", "0", "3", "-", "0", "1", "-", "0", "1">>),
     Call(T_since, <<"0", "0", "0", "4", "-", "0", "2", "-", "2", "9">>)} \cup
    {Call(n, a) : n \in {T_daysago, T_week, T_trailingavg, T_month, T_monthago,
                         T_wtd, T_mtdavg, T_mtd},
                  a \in {D0, D1, D2}}
PctTexts ==
    {T_yesterday, Call(T_daysago, D1), Call(T_trailingavg, D2), T_monthago,
     Call(T_goal, <<"1", "0", "0">>), Call(T_goal, F_fx)}

SpecOf(t) == read_column_value_config(t, 0).value

EvalColumns ==
    {NumberColumn(SpecOf(t)) : t \in EvalTexts} \cup
    {PctChangeColumn(SpecOf(v), SpecOf(b)) : v \in PctTexts, b \in PctTexts}

\* Anchors: the 1st, the 15th and the last days of January and March of the
\* last two years.
EvalAnchors ==
    {a \in AnchorDates : /\ a.year >= LastYear - 1
                         /\ a.month \in {1, 3}
                         /\ a.day \in {1, 15, 29, 30, 31}}

\* Tables: for each of the days today - MaxOffset .. today, no observation
\* or one of the observations Obs; with or without an "over" column.
MaxOffset == 2
Obs == {<<4, 0>>, <<6, 2>>}
NoObs == <<0, 0>>
TableOf(hasOver, tod, f) ==
    Table(hasOver,
          {[date |-> toordinal(tod) - k, total |-> f[k][1], over |-> f[k][2]] :
              k \in {j \in DOMAIN f : f[j] # NoObs}})
EvalTables(tod) ==
    {TableOf(h, tod, f) : h \in BOOLEAN, f \in [0..MaxOffset -> Obs \cup {NoObs}]}

UsesFieldGoal(c) == c.value.kind = "FieldGoal" \/ c.base.kind = "FieldGoal"

InitEval ==
    /\ ParserIdle /\ ValidatorIdle /\ ReportIdle
    /\ today \in EvalAnchors
    /\ column \in EvalColumns
    /\ df \in EvalTables(today)
    /\ row \in IF UsesFieldGoal(column) THEN GoalRows ELSE {RowNone}
    /\ EvalStart

\* With these anchors and months_ago <= 2 the shifted year is never below
\* MINYEAR, so the day tried never falls below 1 (ClampReachesValidDay).
NextEval == EvalDirect \/ BeginClamped \/ ClampStep \/ Select \/ Combine

SpecEval == InitEval /\ [][NextEval]_vars

-----------------------------------------------------------------------------
(* Properties of the parser run (SpecParse)                                *)

\* C4: read_column_value_config either returns a window spec or fails with a
\* ConfigError "unknown column value '<text>'" that carries exactly the line
\* it was given; it fails in no other way.
C4_OnlyConfigError ==
    wspec.status # "none" =>
        \/ wspec.status = "returned"
        \/ /\ wspec.status = "ConfigError"
           /\ wspec.message = "unknown column value"
           /\ wspec.detail = text
           /\ wspec.line = line

\* The texts goal(<arg>) with <arg> non-empty and free of ")".
GoalArg == SubSeq(text, Len(T_goal) + 2, Len(text) - 1)
IsGoalText ==
    /\ Len(text) >= Len(T_goal) + 3
    /\ StartsWith(text, T_goal \o <<"(">>)
    /\ text[Len(text)] = ")"
    /\ \A i \in 1..Len(GoalArg) : GoalArg[i] # ")"
AllDigits(a) == \A i \in 1..Len(a) : a[i] \in Digits

\* C9: goal(<digits>) yields a NumberGoal whose eval returns the number the
\* digits denote; goal(<anything else>) yields a FieldGoal keyed by that text.
C9_GoalResolution ==
    (IsGoalText /\ wspec.status # "none") =>
        IF AllDigits(GoalArg)
        THEN /\ wspec.status = "returned"
             /\ wspec.value.kind = "NumberGoal"
             /\ goalval.status # "none" => goalval = Returned(PyInt(IntOf(GoalArg)))
        ELSE /\ wspec.status = "returned"
             /\ wspec.value.kind = "FieldGoal"
             /\ wspec.value.arg = GoalArg

-----------------------------------------------------------------------------
(* Properties of the evaluation run (SpecEval, SpecMonth)                  *)

\* In SpecEval the clamping loop always finds a valid day.
ClampReachesValidDay == epc = "clamp" => today.day - extra_days >= 1

\* C5: PctChangeColumn.eval returns None if value or base is None, 0 if both
\* are zero, None if only base is zero, and 100 * value / base - 100 otherwise.
C5_PctChangeEval ==
    [][epc = "combine" =>
        /\ (value.type = "None" \/ base.type = "None") => result' = Returned(PyNone)
        /\ (IsZero(value) /\ IsZero(base)) => result' = Returned(PyInt(0))
        /\ (value.type # "None" /\ ~IsZero(value) /\ IsZero(base))
              => result' = Returned(PyNone)
        /\ (value.type # "None" /\ base.type # "None" /\ ~IsZero(base))
              => /\ result'.status = "returned"
                 /\ (value.type = "num" /\ base.type = "num") =>
                       result'.value =
                           RatSub(RatDiv(RatMul(PyInt(100), value), base), PyInt(100))
      ]_vars

TableWindowKinds ==
    {"DaysAgo", "WeekdayWeekend", "TrailingAverage", "WeeksAgo", "WeekToDate",
     "Month", "MonthAgo", "MonthToDate", "MonthToDateAverage", "SinceDate"}

\* C6: eval of a table-based window completes and returns a number or None,
\* for every anchor date and every table.
C6_EvalNeverRaises ==
    (column.cls = "NumberColumn" /\ column.value.kind \in TableWindowKinds) =>
        /\ epc # "hang"
        /\ epc = "done" => /\ result.status = "returned"
                           /\ result.value.type \in {"num", "None", "nan"}

\* The rows a finished range-sum eval matched.
RangeSumKinds ==
    {"SinceDate", "WeeksAgo", "WeekToDate", "Month", "MonthToDate", "WeekdayWeekend"}
MatchedRange ==
    IF IsClamped(column.value) THEN Clamped_range(column.value, target)
    ELSE Window_range(column.value, today)
Matched == Between(df, MatchedRange.lo, MatchedRange.hi)
RangeSumDone ==
    /\ epc = "done" /\ column.cls = "NumberColumn" /\ df.hasOver
    /\ column.value.kind \in RangeSumKinds
    /\ result.status = "returned"

RECURSIVE SumOfRatios(_)
SumOfRatios(rows) ==
    IF rows = {} THEN PyInt(0)
    ELSE LET r == CHOOSE r \in rows : TRUE
         IN RatAdd(Rat(r.total, r.over), SumOfRatios(rows \ {r}))

MonthsAgoOf == column.value.arg
MonthIndex == today.year * 12 + (today.month - 1) - MonthsAgoOf
ShiftedYear == MonthIndex \div 12
ShiftedMonth == (MonthIndex % 12) + 1
Min(a, b) == IF a < b THEN a ELSE b
ExpectedTarget ==
    Date(ShiftedYear, ShiftedMonth,
         Min(today.day, DaysInMonth(ShiftedYear, ShiftedMonth)))

ClampSelects ==
    /\ epc # "hang"
    /\ epc \in {"select", "done"} => target = ExpectedTarget
    /\ epc = "done" => result.status = "returned"

\* C8 as stated: for every anchor and every n >= 0 the clamping loop ends
\* without raising and selects the shifted month's day min(day, month length).
C8_ClampSelectsForEveryN == ClampSelects

\* What holds of the loop: for the shifts that stay within datetime's years
\* (>= MINYEAR) it ends after at most 3 decrements, each trying a day >= 1,
\* and selects the expected date.
ClampSelectsFromMinYear ==
    ShiftedYear >= MINYEAR =>
        /\ ClampSelects
        /\ extra_days <= 3
        /\ epc = "clamp" => today.day - extra_days >= 1

\* MonthAgo(1) with anchor March 31 of a leap year selects February 29.
ClampedLeapFebruary ==
    /\ epc = "done" /\ column.value = Window("MonthAgo", 1)
    /\ today.month = 3 /\ today.day = 31 /\ extra_days = 2
    /\ target = Date(today.year, 2, 29)

\* The date a single-date selection is about, by calendar arithmetic.
SingleDateKinds == {"DaysAgo", "MonthAgo"}
SelectedDate ==
    IF column.value.kind = "DaysAgo" THEN toordinal(today) - column.value.arg
    ELSE toordinal(ExpectedTarget)
SingleDateDone ==
    /\ epc = "done" /\ column.cls = "NumberColumn"
    /\ column.value.kind \in SingleDateKinds
    /\ result.status = "returned"
DateAbsent == \A r \in df.rows : r.date # SelectedDate

C15_SameRangeAsMonthToDate ==
    (column.cls = "NumberColumn" /\ column.value.kind = "MonthToDate"
        /\ epc \in {"select", "done"})
    => MonthToDateAverage_range(column.value.arg, today) = MonthToDate_range(target)

-----------------------------------------------------------------------------
(* Validation run: read_config_from_string(s)                              *)

\* except ConfigError as e: e.filename = filename; raise
Leaves(e) == IF e.status = "ConfigError" THEN [e EXCEPT !.filename = "STREAM"] ELSE e

\* yaml.load, then the checks on "name" and "columns" (lines 503-510).
\* (the line of the top-level mapping node in place of the literal 1)
CheckToplevel_NodeLine(c) ==
    IF "name" \notin DOMAIN c
      THEN ConfigError("missing toplevel name attribute", <<>>, c["__line__"])
    ELSE IF "columns" \notin DOMAIN c
      THEN ConfigError("missing toplevel columns attribute", <<>>, c["__line__"])
    ELSE IF ~c["columns"].isList
      THEN ConfigError("columns must be a list", <<>>, c["__line__"])
    ELSE NoExc
CheckToplevel_Outcome(c) ==
    IF "name" \notin DOMAIN c
      THEN ConfigError("missing toplevel name attribute", <<>>, 1)
    ELSE IF "columns" \notin DOMAIN c
      THEN ConfigError("missing toplevel columns attribute", <<>>, 1)
    ELSE IF ~c["columns"].isList
      THEN ConfigError("columns must be a list", <<>>, 1)
    ELSE NoExc

CheckToplevel ==
    /\ vpc = "start"
    /\ config' = yaml_load(doc)
    /\ LET e == CheckToplevel_Outcome(yaml_load(doc))
       IN IF e.status # "none"
          THEN raised' = Leaves(e) /\ vpc' = "raised"
          ELSE vpc' = "columns" /\ UNCHANGED raised
    /\ vidx' = 1
    /\ UNCHANGED <<doc, parsed, examined>>
    /\ UNCHANGED <<pvars, evars, rvars>>

\* One iteration of "for column in config" of read_column_config.
ReadColumn ==
    /\ vpc = "columns" /\ vidx <= Len(config["columns"].items)
    /\ examined' = Append(examined, <<"column", vidx>>)
    /\ LET r == read_column(config["columns"].items[vidx])
       IN IF r.status = "returned"
          THEN /\ parsed' = Append(parsed, r.value) /\ vidx' = vidx + 1
               /\ UNCHANGED <<vpc, raised>>
          ELSE /\ raised' = Leaves(r) /\ vpc' = "raised"
               /\ UNCHANGED <<parsed, vidx>>
    /\ UNCHANGED <<doc, config>>
    /\ UNCHANGED <<pvars, evars, rvars>>

\* read_column_config returns; config["columns"] = parsed; then lines 514-518:
\* the check of "rows" when present, and the lookup config["rows"].
RowsLookup_Outcome(c) ==
    IF "rows" \in DOMAIN c /\ ~c["rows"].isList
      THEN ConfigError("rows must be a list", <<>>, 1)
    ELSE IF "rows" \notin DOMAIN c THEN KeyError
    ELSE NoExc

ColumnsDone ==
    /\ vpc = "columns" /\ vidx > Len(config["columns"].items)
    /\ config' = [config EXCEPT !["columns"] = PyList(parsed)]
    /\ LET e == RowsLookup_Outcome(config)
       IN IF e.status # "none"
          THEN raised' = Leaves(e) /\ vpc' = "raised"
          ELSE vpc' = "rows" /\ UNCHANGED raised
    /\ parsed' = <<>>
    /\ vidx' = 1
    /\ UNCHANGED <<doc, examined>>
    /\ UNCHANGED <<pvars, evars, rvars>>

\* One iteration of "for row in config" of read_row_config.
ReadRow ==
    /\ vpc = "rows" /\ vidx <= Len(config["rows"].items)
    /\ examined' = Append(examined, <<"row", vidx>>)
    /\ LET r == read_row(config["rows"].items[vidx])
       IN IF r.status = "returned"
          THEN /\ parsed' = Append(parsed, r.value) /\ vidx' = vidx + 1
               /\ UNCHANGED <<vpc, raised>>
          ELSE /\ raised' = Leaves(r) /\ vpc' = "raised"
               /\ UNCHANGED <<parsed, vidx>>
    /\ UNCHANGED <<doc, config>>
    /\ UNCHANGED <<pvars, evars, rvars>>

\* read_row_config returns; config["rows"] = parsed; return config.
RowsDone ==
    /\ vpc = "rows" /\ vidx > Len(config["rows"].items)
    /\ config' = [config EXCEPT !["rows"] = PyList(parsed)]
    /\ vpc' = "done"
    /\ UNCHANGED <<doc, vidx, parsed, examined, raised>>
    /\ UNCHANGED <<pvars, evars, rvars>>

\* Column and row elements, each the sequence of its attribute lines.
T_unknownvalue == Call(T_after, <<"2", "0", "0", "0", "-", "0", "1", "-", "0", "1">>)
T_baddate == Call(T_since, <<"2", "0", "0", "0", "-", "1", "3", "-", "0", "1">>)
ColumnElems ==
    {<<<<"name", "c">>, <<"type", "number">>, <<"value", T_yesterday>>>>,
     <<<<"name", "c">>, <<"value", T_lastweek>>>>,
     <<<<"type", "number">>, <<"value", T_lastweek>>>>,
     <<<<"name", "c">>, <<"type", "pctchange">>, <<"value", T_lastweek>>>>,
     <<<<"name", "c">>, <<"type", "pctchange">>, <<"value", T_lastweek>>,
       <<"base", T_unknownvalue>>>>,
     <<<<"name", "c">>, <<"type", "unknown">>, <<"value", T_lastweek>>>>,
     <<<<"name", "c">>, <<"type", "number">>, <<"value", T_baddate>>>>,
     <<<<"type", "sparkline">>>>,
     <<<<"name", "c">>, <<"type", "pctchange">>, <<"value", T_yesterday>>,
       <<"base", Call(T_goal, <<"1", "0", "0">>)>>>>}
RowElems ==
    {<<<<"name", "r">>, <<"query", "q.sql">>, <<"type", "number">>>>,
     <<<<"query", "q.sql">>, <<"type", "number">>>>,
     <<<<"name", "r">>>>,
     <<<<"name", "r">>, <<"query", "q.sql">>, <<"type", "unknown">>>>,
     <<<<"name", "r">>, <<"query", "q.sql">>, <<"style", "bold">>>>,
     <<<<"name", "r">>, <<"query", "q.sql">>, <<"style", "neutral">>, <<"fx", 50>>>>}

MaxColumns == 2
MaxRows == 2
LeadLines == {0, 2}

RECURSIVE SeqsUpTo(_, _)
SeqsUpTo(S, n) ==
    IF n = 0 THEN {<<>>}
    ELSE LET shorter == SeqsUpTo(S, n - 1)
         IN shorter \cup {Append(q, x) : q \in shorter, x \in S}

Nodes(S, n) == {Absent, Scalar} \cup {List(q) : q \in SeqsUpTo(S, n)}

Documents ==
    [lead : LeadLines, hasName : BOOLEAN,
     columns : Nodes(ColumnElems, MaxColumns), rows : Nodes(RowElems, MaxRows)]

InitConfig ==
    /\ ParserIdle /\ EvalIdle /\ ReportIdle
    /\ doc \in Documents
    /\ config = <<>> /\ vpc = "start" /\ vidx = 0
    /\ parsed = <<>> /\ examined = <<>> /\ raised = NoExc

NextConfig == CheckToplevel \/ ReadColumn \/ ColumnsDone \/ ReadRow \/ RowsDone

SpecConfig == InitConfig /\ [][NextConfig]_vars

-----------------------------------------------------------------------------
(* Properties of the validation run (SpecConfig)                           *)

Finished == vpc \in {"done", "raised"}
RaisedConfigError(message, ln) ==
    /\ vpc = "raised" /\ raised.status = "ConfigError"
    /\ raised.message = message /\ raised.line = ln

\* What the document holds, read off the document itself.
ColumnsIsList == doc.columns.node = "list"
RowsIsList == doc.rows.node = "list"
NColumns == IF ColumnsIsList THEN Len(doc.columns.elems) ELSE 0
NRows == IF RowsIsList THEN Len(doc.rows.elems) ELSE 0
ColumnOk(i) ==
    read_column(construct_mapping(doc.columns.elems[i], ColumnLine(doc, i))).status
        = "returned"
RowOk(i) ==
    read_row(construct_mapping(doc.rows.elems[i], RowLine(doc, i))).status = "returned"
ToplevelOk == doc.hasName /\ ColumnsIsList
ColumnsOk == ToplevelOk /\ \A i \in 1..NColumns : ColumnOk(i)

\* C1: each top-level violation raises ConfigError with line 1 and its own
\* message: name absent, columns absent, columns not a list, rows present but
\* not a list (the last once the columns are read).
C1_ToplevelErrors ==
    vpc # "start" =>
        /\ ~doc.hasName => RaisedConfigError("missing toplevel name attribute", 1)
        /\ (doc.hasName /\ doc.columns.node = "absent")
              => RaisedConfigError("missing toplevel columns attribute", 1)
        /\ (doc.hasName /\ doc.columns.node = "scalar")
              => RaisedConfigError("columns must be a list", 1)
        /\ (ColumnsOk /\ doc.rows.node = "scalar" /\ vpc # "columns")
              => RaisedConfigError("rows must be a list", 1)

\* "rows must be a list" is raised with line 1 in a document whose mapping
\* starts further down and whose columns were read.
C1_Witness ==
    /\ RaisedConfigError("rows must be a list", 1)
    /\ doc.lead > 0 /\ Len(examined) = 2

ElementMessages ==
    {"missing type attribute for column", "unknown column type",
     "missing name attribute for column", "missing value attribute for column",
     "missing base attribute for column", "unknown column value",
     "missing name attribute for row", "missing query attribute for row",
     "unknown row type", "unknown row style"}

LastExamined == examined[Len(examined)]
\* The line the mapping node of the last examined element starts on.
LastExaminedLine ==
    IF LastExamined[1] = "column" THEN ColumnLine(doc, LastExamined[2])
    ELSE RowLine(doc, LastExamined[2])
LastExaminedAttrs ==
    IF LastExamined[1] = "column" THEN doc.columns.elems[LastExamined[2]]
    ELSE doc.rows.elems[LastExamined[2]]

\* C2: a ConfigError raised while a column or a row is validated carries the
\* line its mapping node starts on.
C2_ElementErrorLine ==
    (vpc = "raised" /\ raised.status = "ConfigError"
        /\ raised.message \in ElementMessages)
    => /\ examined # <<>>
       /\ raised.line = LastExaminedLine

\* An unknown row type on the third line of a row: the error carries the
\* line of the row, which is neither 1 nor the line of the type attribute.
C2_Witness ==
    /\ vpc = "raised" /\ raised.status = "ConfigError"
    /\ raised.message = "unknown row type"
    /\ LastExaminedAttrs[3][1] = "type"
    /\ raised.line = LastExaminedLine
    /\ raised.line # 1
    /\ raised.line # AttrLine(LastExaminedLine, 3)
    /\ LastExamined[2] = 2

\* The elements examined when the first violation is the one of column i /
\* of row i / none of them.
UpToColumn(i) == [k \in 1..i |-> <<"column", k>>]
UpToRow(i) == UpToColumn(NColumns) \o [k \in 1..i |-> <<"row", k>>]
FirstBadColumn == CHOOSE i \in 1..NColumns : ~ColumnOk(i) /\ \A k \in 1..(i - 1) : ColumnOk(k)
FirstBadRow == CHOOSE i \in 1..NRows : ~RowOk(i) /\ \A k \in 1..(i - 1) : RowOk(k)
HasViolation ==
    \/ ~ColumnsOk
    \/ doc.rows.node = "scalar"
    \/ \E i \in 1..NRows : ~RowOk(i)

\* C3: validation is one fail-fast pass (top level, the columns in order, the
\* rows in order): a document with violations raises exactly one ConfigError,
\* that of the first violation, and examines nothing after the offending
\* element; no row is examined unless every column was validated.
C3_FailFast ==
    /\ (\E k \in 1..Len(examined) : examined[k][1] = "row") => ColumnsOk
    /\ (Finished /\ HasViolation) =>
          /\ vpc = "raised" /\ raised.status = "ConfigError"
          /\ IF ~ToplevelOk THEN examined = <<>>
             ELSE IF ~ColumnsOk
               THEN /\ examined = UpToColumn(FirstBadColumn)
                    /\ raised.line = ColumnLine(doc, FirstBadColumn)
             ELSE IF doc.rows.node = "scalar" THEN examined = UpToColumn(NColumns)
             ELSE /\ examined = UpToRow(FirstBadRow)
                  /\ raised.line = RowLine(doc, FirstBadRow)

\* C10: a document with a name and valid columns but no "rows" key is valid:
\* read_config_from_string returns a config whose rows is the empty list.
C10_NoRowsIsValid ==
    (ColumnsOk /\ doc.rows.node = "absent") =>
        /\ vpc # "raised"
        /\ vpc = "done" => config["rows"] = PyList(<<>>)

-----------------------------------------------------------------------------
(* Report run: slack / slackimg / email (compgrid.py)                      *)
(*                                                                         *)
(* An entry point reads the config (the validation run above, then the     *)
(* query files), calls build_message, renders and sends.  build_message    *)
(* and evaluate_row work on the objects read_config returned: config is    *)
(* the one mapping, its rows are the row objects, and a reference to a row *)
(* is its index in config["rows"].  The clock is read by build_message and *)
(* by each call of evaluate_row.                                           *)

\* obj.k = v on an object, d[k] = v on a dict
SetAttr(obj, k, v) == [x \in DOMAIN obj \cup {k} |-> IF x = k THEN v ELSE obj[x]]

\* list.append(x)
\* (inserting at the front)
append_AtFront(list, x) == <<x>> \o list
append(list, x) == Append(list, x)

\* str(date): YYYY-MM-DD
DigitChar(n) == CHOOSE ch \in Digits : DigitVal(ch) = n
isoformat(d) ==
    <<DigitChar(d.year \div 1000), DigitChar((d.year \div 100) % 10),
      DigitChar((d.year \div 10) % 10), DigitChar(d.year % 10), "-",
      DigitChar(d.month \div 10), DigitChar(d.month % 10), "-",
      DigitChar(d.day \div 10), DigitChar(d.day % 10)>>

\* v.format(yesterday_date=d), for texts whose only replacement field is
\* {yesterday_date}
T_field == <<"{", "y", "e", "s", "t", "e", "r", "d", "a", "y", "_", "d", "a", "t", "e", "}">>
RECURSIVE str_format(_, _)
str_format(v, d) ==
    IF v = <<>> THEN <<>>
    ELSE IF StartsWith(v, T_field)
      THEN isoformat(d) \o str_format(SubSeq(v, Len(T_field) + 1, Len(v)), d)
    ELSE <<v[1]>> \o str_format(Tail(v), d)

\* datetime.date(datetime.now()) - timedelta(days=1)
Yesterday(clock) == fromordinal(clock - 1)

\* read_config, after read_config_from_string returned: each row's query
\* becomes the text of its query file, and the row gets config_directory.
FileText(path) == <<"text of", path>>
WithQueryFiles(c) ==
    [c EXCEPT !["rows"] =
        PyList([i \in 1..Len(c["rows"].items) |->
                   SetAttr(SetAttr(c["rows"].items[i], "query",
                                   FileText(c["rows"].items[i].query)),
                           "config_directory", "dir")])]

\* except ConfigError as e: log.exception(...); return -- any other
\* exception leaves the entry point
\* (the handler raising again)
ExceptConfigError_Reraise(e) == "raised"
ExceptConfigError(e) == IF e.status = "ConfigError" THEN "returned" ELSE "raised"

\* ColumnValue(name, template, value, type)
ColumnValue(name, template, v, type) ==
    [name |-> name, template |-> template, value |-> v, type |-> type]

\* column.eval(df, today, row=row) of NumberColumn and PctChangeColumn, for
\* window specs without clamping loop.
Spec_eval(w, t, tod, r) == Window_eval(w, t, tod, RowOf(r.fields), Table(FALSE, {}))
Column_eval(c, t, tod, r) ==
    IF c.cls = "NumberColumn" THEN Spec_eval(c.value, t, tod, r)
    ELSE LET v == Spec_eval(c.value, t, tod, r)
             b == Spec_eval(c.base, t, tod, r)
         IN IF v.status # "returned" THEN v
            ELSE IF b.status # "returned" THEN b
            ELSE PctChange_combine(v.value, b.value)

\* evaluate_row, its last two statements: row.columns = results; return row
\* (also renaming the row)
WithResults_Renamed(r, res) == [SetAttr(r, "columns", res) EXCEPT !.name = "renamed"]
WithResults(r, res) == SetAttr(r, "columns", res)

\* A reference to the row object config["rows"][i].
Ref(i) == [ref |-> i]
Rows == config["rows"].items
Columns == config["columns"].items

\* pd.read_sql_query(row.query, connection): the tables the database holds,
\* by query file.  a.sql has only "total"; b.sql has "over", 0 on one day,
\* and no observation for Day0.
Day0 == toordinal(Date(3, 3, 1))
read_sql_query(sql) ==
    IF sql = FileText("a.sql")
    THEN Table(FALSE, {[date |-> Day0 - 1, total |-> 6, over |-> 0],
                       [date |-> Day0, total |-> 4, over |-> 0],
                       [date |-> Day0 + 1, total |-> 8, over |-> 0]})
    ELSE Table(TRUE, {[date |-> Day0 - 2, total |-> 4, over |-> 0],
                      [date |-> Day0 - 1, total |-> 6, over |-> 2],
                      [date |-> Day0 + 1, total |-> 3, over |-> 1]})

\* try: c = read_config(config) -- read_config_from_string raised.
ReadConfigRaised ==
    /\ rpc = "read" /\ vpc = "raised"
    /\ rpc' = ExceptConfigError(raised)
    /\ IF raised.status = "ConfigError"
       THEN logged' = Append(logged, raised) /\ UNCHANGED uncaught
       ELSE uncaught' = raised /\ UNCHANGED logged
    /\ UNCHANGED <<entry, now, yesterday_date, yesterday, ridx, cidx, results,
                   row_results, rdf, loaded, evals, queries, rendered, sent>>
    /\ UNCHANGED <<pvars, vvars, evars>>

\* read_config_from_string returned: read_config reads the query files and
\* returns the config.
ReadQueryFiles ==
    /\ rpc = "read" /\ vpc = "done"
    /\ config' = WithQueryFiles(config)
    /\ loaded' = WithQueryFiles(config)
    /\ rpc' = "build"
    /\ UNCHANGED <<entry, now, yesterday_date, yesterday, ridx, cidx, results,
                   row_results, rdf, evals, queries, logged, rendered, sent, uncaught>>
    /\ UNCHANGED <<pvars, evars, doc, vpc, vidx, parsed, examined, raised>>

\* build_message up to its loop over the rows.
BuildStart ==
    /\ rpc = "build"
    /\ yesterday_date' = Yesterday(now)
    /\ config' = [k \in DOMAIN config |->
                     IF k \in {"__line__", "columns", "rows"} THEN config[k]
                     ELSE str_format(config[k], Yesterday(now))]
    /\ results' = <<>>
    /\ ridx' = 1
    /\ rpc' = "rows"
    /\ UNCHANGED <<entry, now, yesterday, cidx, row_results, rdf, loaded, evals,
                   queries, logged, rendered, sent, uncaught>>
    /\ UNCHANGED <<pvars, evars, doc, vpc, vidx, parsed, examined, raised>>

\* evaluate_row up to its loop over the columns.
EvaluateRowStart ==
    /\ rpc = "rows" /\ ridx <= Len(Rows)
    /\ yesterday' = Yesterday(now)
    /\ config' = [config EXCEPT !["rows"].items[ridx] = SetAttr(@, "connection", "conn")]
    /\ queries' = Append(queries, Rows[ridx].query)
    /\ rdf' = read_sql_query(Rows[ridx].query)
    /\ row_results' = <<>>
    /\ cidx' = 1
    /\ rpc' = "columns"
    /\ UNCHANGED <<entry, now, yesterday_date, ridx, results, loaded, evals, logged,
                   rendered, sent, uncaught>>
    /\ UNCHANGED <<pvars, evars, doc, vpc, vidx, parsed, examined, raised>>

\* One iteration of "for column in columns"; an exception raised by eval
\* leaves evaluate_row, build_message and the entry point.
EvalColumn ==
    /\ rpc = "columns" /\ cidx <= Len(Columns)
    /\ evals' = Append(evals, [row |-> ridx, column |-> cidx, today |-> yesterday])
    /\ LET o == Column_eval(Columns[cidx], rdf, yesterday, Rows[ridx])
       IN IF o.status = "returned"
          THEN /\ row_results' =
                     append(row_results,
                            ColumnValue(Columns[cidx].name, Columns[cidx].template,
                                        o.value, Rows[ridx].type))
               /\ cidx' = cidx + 1
               /\ UNCHANGED <<rpc, uncaught>>
          ELSE /\ uncaught' = o /\ rpc' = "raised"
               /\ UNCHANGED <<row_results, cidx>>
    /\ UNCHANGED <<entry, now, yesterday_date, yesterday, ridx, results, rdf, loaded,
                   queries, logged, rendered, sent>>
    /\ UNCHANGED <<pvars, vvars, evars>>

\* row.columns = results; return row -- and results.append(data) of
\* build_message.
EvaluateRowEnd ==
    /\ rpc = "columns" /\ cidx > Len(Columns)
    /\ config' = [config EXCEPT !["rows"].items[ridx] = WithResults(@, row_results)]
    /\ results' = append(results, Ref(ridx))
    /\ ridx' = ridx + 1
    /\ rpc' = "rows"
    /\ UNCHANGED <<entry, now, yesterday_date, yesterday, cidx, row_results, rdf,
                   loaded, evals, queries, logged, rendered, sent, uncaught>>
    /\ UNCHANGED <<pvars, evars, doc, vpc, vidx, parsed, examined, raised>>

\* config["table"] = results; config["yesterday_date"] = yesterday_date;
\* return config
BuildEnd ==
    /\ rpc = "rows" /\ ridx > Len(Rows)
    /\ config' = SetAttr(SetAttr(config, "table", results),
                         "yesterday_date", yesterday_date)
    /\ rpc' = "render"
    /\ UNCHANGED <<entry, now, yesterday_date, yesterday, ridx, cidx, results,
                   row_results, rdf, loaded, evals, queries, logged, rendered, sent,
                   uncaught>>
    /\ UNCHANGED <<pvars, evars, doc, vpc, vidx, parsed, examined, raised>>

\* template.render(output); slackimg renders text.md too when the config
\* has a header.
Render ==
    /\ rpc = "render"
    /\ rendered' = rendered
                   + (IF entry = "slackimg" /\ "header" \in DOMAIN config THEN 2 ELSE 1)
    /\ rpc' = "send"
    /\ UNCHANGED <<entry, now, yesterday_date, yesterday, ridx, cidx, results,
                   row_results, rdf, loaded, evals, queries, logged, sent, uncaught>>
    /\ UNCHANGED <<pvars, vvars, evars>>

\* The delivery: chat_postMessage / files_upload to c["slack"], or
\* yag.send to c["email"] when credentials are found.
Send ==
    /\ rpc = "send"
    /\ \E credentials \in BOOLEAN :
          LET key == IF entry = "email" THEN "email" ELSE "slack"
          IN IF key \notin DOMAIN config
             THEN uncaught' = KeyError /\ rpc' = "raised" /\ UNCHANGED sent
             ELSE IF entry = "email" /\ ~credentials
             THEN rpc' = "returned" /\ UNCHANGED <<sent, uncaught>>
             ELSE sent' = sent + 1 /\ rpc' = "returned" /\ UNCHANGED uncaught
    /\ UNCHANGED <<entry, now, yesterday_date, yesterday, ridx, cidx, results,
                   row_results, rdf, loaded, evals, queries, logged, rendered>>
    /\ UNCHANGED <<pvars, vvars, evars>>

\* Midnight passes.  The clock is read by BuildStart and EvaluateRowStart
\* only, so it is enough to let it advance just before these.
MaxMidnights == 1
Tick ==
    /\ rpc \in {"build", "rows"}
    /\ now < Day0 + 1 + MaxMidnights
    /\ now' = now + 1
    /\ UNCHANGED <<entry, rpc, yesterday_date, yesterday, ridx, cidx, results,
                   row_results, rdf, loaded, evals, queries, logged, rendered, sent,
                   uncaught>>
    /\ UNCHANGED <<pvars, vvars, evars>>

\* The documents of the report run: every list of up to MaxReportColumns of
\* the columns below and up to MaxReportRows of the rows below, and the
\* faulty documents; with or without title, header and email.
T_title == <<"f", "o", "r", " ">> \o T_field
T_channel == <<"d", "a", "t", "a">>
T_mail == <<"a", "@", "b">>
ReportScalars ==
    {[slack |-> T_channel],
     [title |-> T_title, header |-> T_name, slack |-> T_channel, email |-> T_mail]}
ReportColumnElems ==
    {<<<<"name", "c1">>, <<"type", "number">>, <<"value", T_yesterday>>>>,
     <<<<"name", "c2">>, <<"type", "pctchange">>, <<"value", T_yesterday>>,
       <<"base", Call(T_daysago, D1)>>>>,
     <<<<"name", "c3">>, <<"type", "pctchange">>, <<"value", T_yesterday>>,
       <<"base", Call(T_goal, <<"1", "0", "0">>)>>>>}
ReportRowElems ==
    {<<<<"name", "a">>, <<"query", "a.sql">>, <<"type", "number">>>>,
     <<<<"name", "b">>, <<"query", "b.sql">>>>}
MaxReportColumns == 2
MaxReportRows == 2
ColumnC1 == <<<<"name", "c1">>, <<"type", "number">>, <<"value", T_yesterday>>>>
RowA == <<<<"name", "a">>, <<"query", "a.sql">>, <<"type", "number">>>>
FaultyDocuments ==
    {[lead |-> 0, hasName |-> FALSE, columns |-> List(<<ColumnC1>>), rows |-> List(<<RowA>>)],
     [lead |-> 2, hasName |-> TRUE, columns |-> Scalar, rows |-> List(<<RowA>>)],
     [lead |-> 0, hasName |-> TRUE,
      columns |-> List(<<ColumnC1, <<<<"name", "c4">>, <<"type", "unknown">>>>>>),
      rows |-> List(<<RowA>>)],
     [lead |-> 0, hasName |-> TRUE,
      columns |-> List(<<<<<<"name", "c5">>, <<"type", "number">>, <<"value", T_baddate>>>>>>),
      rows |-> List(<<RowA>>)],
     [lead |-> 0, hasName |-> TRUE, columns |-> List(<<ColumnC1>>), rows |-> Absent],
     [lead |-> 0, hasName |-> TRUE, columns |-> List(<<ColumnC1>>), rows |-> Scalar],
     [lead |-> 0, hasName |-> TRUE, columns |-> List(<<ColumnC1>>),
      rows |-> List(<<RowA, <<<<"name", "x">>>>>>)]}
WellFormedDocuments ==
    [lead : {0}, hasName : {TRUE},
     columns : {List(q) : q \in SeqsUpTo(ReportColumnElems, MaxReportColumns)},
     rows : {List(q) : q \in SeqsUpTo(ReportRowElems, MaxReportRows)}]
ReportDocuments ==
    {[k \in DOMAIN d \cup {"scalars"} |-> IF k = "scalars" THEN sc ELSE d[k]] :
        d \in WellFormedDocuments \cup FaultyDocuments, sc \in ReportScalars}

InitReport ==
    /\ ParserIdle /\ EvalIdle
    /\ doc \in ReportDocuments
    /\ config = <<>> /\ vpc = "start" /\ vidx = 0
    /\ parsed = <<>> /\ examined = <<>> /\ raised = NoExc
    /\ entry \in {"slack", "slackimg", "email"}
    /\ rpc = "read"
    /\ now = Day0 + 1
    /\ yesterday_date = NoDate /\ yesterday = NoDate /\ ridx = 0 /\ cidx = 0
    /\ results = <<>> /\ row_results = <<>> /\ rdf = Table(FALSE, {})
    /\ loaded = <<>> /\ evals = <<>> /\ queries = <<>> /\ logged = <<>>
    /\ rendered = 0 /\ sent = 0 /\ uncaught = NoExc

NextReport ==
    \/ CheckToplevel \/ ReadColumn \/ ColumnsDone \/ ReadRow \/ RowsDone
    \/ ReadConfigRaised \/ ReadQueryFiles
    \/ BuildStart \/ EvaluateRowStart \/ EvalColumn \/ EvaluateRowEnd \/ BuildEnd
    \/ Render \/ Send \/ Tick

SpecReport == InitReport /\ [][NextReport]_vars

-----------------------------------------------------------------------------
(* Properties of the report run (SpecReport)                               *)

ConfigFailed == vpc = "raised" /\ raised.status = "ConfigError"
\* build_message has returned.
Built == vpc = "done" /\ "table" \in DOMAIN config
Table_ == config["table"]
RowAt(i) == Rows[Table_[i].ref]
NoneCells == {<<i, j>> \in (1..Len(Rows)) \X (1..Len(Columns)) :
                 /\ j <= Len(Rows[i].columns)
                 /\ Rows[i].columns[j].value = PyNone}

\* C11: when reading the config fails with a ConfigError the entry point
\* logs it and returns, with no query executed, no column evaluated, nothing
\* rendered and nothing sent; a None cell does not stop the run: once
\* build_message has returned every column of every row was evaluated and the
\* report is rendered, and no exception arises from a None operand.
C11_ConfigErrorSkipsReport ==
    /\ ConfigFailed =>
          /\ rpc \in {"read", "returned"}
          /\ queries = <<>> /\ evals = <<>> /\ rendered = 0 /\ sent = 0
          /\ uncaught = NoExc
          /\ rpc = "returned" => logged = <<raised>>
    /\ Built =>
          /\ Len(evals) = Len(Rows) * Len(Columns)
          /\ \A i \in 1..Len(Rows) : Len(Rows[i].columns) = Len(Columns)
          /\ rpc # "render" => rendered >= 1
    /\ (rpc = "raised" /\ uncaught.status = "TypeError") =>
          Spec_eval(Columns[cidx].value, rdf, yesterday, Rows[ridx]).value # PyNone

\* The unknown column type of the second column is logged with its line and
\* the entry point has returned.
C11_Witness ==
    /\ rpc = "returned" /\ ConfigFailed
    /\ Len(logged) = 1 /\ logged[1].message = "unknown column type"
    /\ logged[1].line = 6

\* A report was sent whose first row has a None cell and whose second row
\* was evaluated after it.
NoneCellThenMore ==
    /\ rpc = "returned" /\ sent = 1
    /\ <<1, 1>> \in NoneCells
    /\ Len(Rows) = 2 /\ Rows[2].columns[1].value = PyInt(4)

\* C12: within one call of build_message every column of every row is
\* evaluated against one anchor date, the yesterday_date stored in the
\* result, whatever the clock does in between.
C12_SingleAnchor ==
    /\ \A i \in 1..Len(evals) : evals[i].today = yesterday_date
    /\ Built => config["yesterday_date"] = yesterday_date

\* The declared type of a row and the template of a column, from the document.
DeclaredRows == doc.rows.elems
DeclaredColumns == doc.columns.elems
DeclaredType(r) == IF "type" \in Keys(r) THEN ValueOf(r, "type") ELSE "float"
TemplateOf(c) ==
    CASE ValueOf(c, "type") = "number" -> "column_number.md"
      [] ValueOf(c, "type") = "pctchange" -> "column_pctchange.md"
      [] ValueOf(c, "type") = "sparkline" -> "column_sparkline.md"

\* C13: after build_message, config["table"] has one entry per declared row
\* in declaration order, and each row's columns has one ColumnValue per
\* declared column in declaration order, with that column's name and
\* template and the row's type.
C13_DeclarationOrder ==
    Built =>
        /\ Len(Table_) = Len(DeclaredRows)
        /\ \A i \in 1..Len(Table_) :
              /\ RowAt(i).name = ValueOf(DeclaredRows[i], "name")
              /\ Len(RowAt(i).columns) = Len(DeclaredColumns)
              /\ \A j \in 1..Len(RowAt(i).columns) :
                    /\ RowAt(i).columns[j].name = ValueOf(DeclaredColumns[j], "name")
                    /\ RowAt(i).columns[j].template = TemplateOf(DeclaredColumns[j])
                    /\ RowAt(i).columns[j].type = DeclaredType(DeclaredRows[i])

\* Rows b, a and columns c2, c1 come out in that order.
C13_Witness ==
    /\ rpc = "returned" /\ Built
    /\ Len(Table_) = 2 /\ RowAt(1).name = "b" /\ RowAt(2).name = "a"
    /\ Len(RowAt(2).columns) = 2
    /\ RowAt(2).columns[1].name = "c2" /\ RowAt(2).columns[2].name = "c1"
    /\ RowAt(2).columns[1].template = "column_pctchange.md"
    /\ RowAt(1).columns[1].type = "float" /\ RowAt(2).columns[1].type = "number"

\* build_message is running or has returned.
Loaded == vpc = "done" /\ rpc # "read"
Formatted == rpc # "build"
ScalarKeys(c) == DOMAIN c \ {"__line__", "columns", "rows", "table", "yesterday_date"}
RowDefinition(r) ==
    [k \in DOMAIN r \ {"columns", "connection"} |-> r[k]]

====
